---------------------------- MODULE Spec2Model ----------------------------
(***************************************************************************)
(* A model of deoplete-solargraph (rplugin/python3/deoplete/source/        *)
(* solargraph.py): the Server supervisor of the solargraph child process,  *)
(* the HTTP Client, the workspace resolver and the deoplete Source that    *)
(* drives them.                                                            *)
(*                                                                         *)
(* Strings are sequences of tokens.  A line of child output is a sequence  *)
(* over {"PORT=", digits, "B", "\n"}; a path is a sequence over            *)
(* {"/", letters}.  None is NoProc for a process handle, NoPort for a      *)
(* port and the one-token string <<"None">> for a value.                   *)
(***************************************************************************)
EXTENDS Integers, Sequences, FiniteSets, TLC

\* ------------------------------------------------------------- bounds
\* Children the host may spawn in one run.
MaxSpawn == 2
\* Lines without a port announcement a child prints before it announces
\* or closes its output.
MaxLines == 2
\* Characters of the text typed on the current line.
MaxInput == 3
\* Arguments of a suggestion item.
MaxArgs == 3

\* ------------------------------------------------------ None encodings
NoProc == 0
NoPort == -1
NoneStr == <<"None">>

\* ----------------------------------------------------- string helpers
Digits == {"0", "1", "2"}

DigitVal(d) == CASE d = "0" -> 0 [] d = "1" -> 1 [] d = "2" -> 2

DigitChar(n) == CASE n = 0 -> "0" [] n = 1 -> "1" [] n = 2 -> "2"
                  [] n = 3 -> "3" [] n = 4 -> "4" [] n = 5 -> "5"
                  [] n = 6 -> "6" [] n = 7 -> "7" [] n = 8 -> "8"
                  [] n = 9 -> "9"

\* int(s) of a non-empty digit string.
RECURSIVE ParseInt(_)
ParseInt(ds) ==
    IF Len(ds) = 1 THEN DigitVal(ds[1])
    ELSE 10 * ParseInt(SubSeq(ds, 1, Len(ds) - 1)) + DigitVal(ds[Len(ds)])

\* str(n) of a natural number.
RECURSIVE FormatInt(_)
FormatInt(n) ==
    IF n < 10 THEN <<DigitChar(n)>>
    ELSE FormatInt(n \div 10) \o <<DigitChar(n % 10)>>

\* The digits from position i on, as far as they go.
RECURSIVE DigitRun(_, _)
DigitRun(line, i) ==
    IF i <= Len(line) /\ line[i] \in Digits
    THEN <<line[i]>> \o DigitRun(line, i + 1)
    ELSE <<>>

\* re.search(r'PORT=(\d+)', line): the places where the pattern matches.
PortMatches(line) ==
    {i \in 1..Len(line) : line[i] = "PORT=" /\ DigitRun(line, i + 1) # <<>>}

\* group(1) of the leftmost match; <<>> when nothing matches.
SearchPort(line) ==
    IF PortMatches(line) = {} THEN <<>>
    ELSE LET i == CHOOSE k \in PortMatches(line) :
                     \A j \in PortMatches(line) : k <= j
         IN DigitRun(line, i + 1)

\* 'http://{}:{}/'.format(host, port)
FormatUrl(host, p) ==
    <<"http://", host, ":">>
      \o (IF p = NoPort THEN NoneStr ELSE FormatInt(p)) \o <<"/">>

\* The port urllib connects to for a url FormatUrl built; NoPort when the
\* port part is not a number.
UrlPort(u) ==
    LET ds == SubSeq(u, 4, Len(u) - 1)
    IN IF ds # <<>> /\ \A i \in 1..Len(ds) : ds[i] \in Digits
       THEN ParseInt(ds) ELSE NoPort

\* 'Failed to start server' + (output and ':\n' + output)
FailMessage(out) ==
    <<"Failed to start server">> \o (IF out = <<>> THEN <<>> ELSE <<":\n">> \o out)

\* ------------------------------------------------ what a child prints
\* Lines readline() can return before the end of the stream.
QuietLines ==
    { <<"B", "\n">>, <<"PORT=", "B", "1", "\n">> }

AnnounceLines ==
    { <<"PORT=", "1", "\n">>,
      <<"PORT=", "B", "PORT=", "1", "2", "PORT=", "2", "\n">>,
      <<"B", "PORT=", "0", "2", "B", "\n">> }

LineSet == QuietLines \cup AnnounceLines

VARIABLES
    hostAlive,      \* the host (editor plugin) process has not been terminated
    nspawn,         \* children spawned so far; child ids are 1..nspawn
    alive,          \* children still running
    closed,         \* children whose captured output the host has closed
    listen,         \* child -> the port it announced (NoPort: none yet)
    held,           \* a constructed Server is bound (self.server)
    proc,           \* Server.proc of the latest Server object
    port,           \* Server.port
    url,            \* Server.url (<<>>: not assigned yet)
    handlers,       \* the signal handlers of this Server are installed
    pc,             \* where the main thread is
    caller,         \* who runs Server.start: "gather", "new" or "direct"
    output,         \* start()'s local: output
    pending,        \* start()'s local: int(match.group(1)), not yet stored
    linesRead,      \* the lines this start() has read, in order
    result,         \* the last completed operation and what it gave
    lastSignal,     \* the last signal delivered and how it was handled
    command,        \* Source.command
    is_server_started,  \* Source.is_server_started
    client_url,     \* Source.client.url (<<>>: no client yet)
    workspace_cache,    \* Source.workspace_cache: directory -> workspace
    markers,        \* the marker files that exist in the file system
    req,            \* the remote call in flight (url, path, params)
    reported,       \* print_error messages of the gather_candidates call in progress
    walks,          \* directory -> ancestor walks done for it
    answers         \* directory -> values find_workspace_directory returned for it

srvVars == <<nspawn, alive, closed, listen, held, proc, port, url, handlers,
             pc, caller, output, pending, linesRead>>


srcVars == <<command, is_server_started, client_url, req, reported>>

wsVars == <<workspace_cache, walks, answers>>

vars == <<hostAlive, srvVars, result, lastSignal, srcVars, wsVars, markers>>

\* --------------------------------------------------------------- paths
\* context['bufpath'] values: files in /, /a, /a/b, and a buffer with no
\* directory part.
BufPaths ==
    { <<"/", "f">>, <<"/", "a", "/", "f">>,
      <<"/", "a", "/", "b", "/", "f">>, <<"f">> }

\* Marker files that may exist.
MarkerPaths ==
    { <<"/", "Gemfile">>, <<"/", "a", "/", "Gemfile">>,
      <<"/", "a", "/", "b", "/", ".git">> }

Targets == <<"Gemfile", ".git">>

Slashes(p) == {i \in 1..Len(p) : p[i] = "/"}

LastSlash(p) ==
    IF Slashes(p) = {} THEN 0
    ELSE CHOOSE i \in Slashes(p) : \A j \in Slashes(p) : j <= i

\* s.rstrip('/')
RECURSIVE RStripSlash(_)
RStripSlash(p) ==
    IF p # <<>> /\ p[Len(p)] = "/" THEN RStripSlash(SubSeq(p, 1, Len(p) - 1))
    ELSE p

\* os.path.dirname (posixpath)
Dirname(p) ==
    LET head == SubSeq(p, 1, LastSlash(p))
    IN IF head # <<>> /\ \E i \in 1..Len(head) : head[i] # "/"
       THEN RStripSlash(head) ELSE head

\* os.path.join(a, b) for a relative b
PathJoin(a, b) ==
    IF a = <<>> THEN <<b>>
    ELSE IF a[Len(a)] = "/" THEN a \o <<b>>
    ELSE a \o <<"/", b>>

\* s[:-1]
DropLast(s) == IF s = <<>> THEN <<>> ELSE SubSeq(s, 1, Len(s) - 1)

Dirs == {Dirname(f) : f \in BufPaths}

\* find_dir_recursive(base_dir, targets) on the file system fs; NoneStr
\* for None.
RECURSIVE find_dir_recursive(_, _, _)
find_dir_recursive(base_dir, targets, fs) ==
    LET parent == Dirname(DropLast(base_dir))
    IN IF parent = <<>> THEN NoneStr
       ELSE IF \E i \in 1..Len(targets) : PathJoin(base_dir, targets[i]) \in fs
       THEN base_dir
       ELSE find_dir_recursive(parent, targets, fs)

\* len(file_dir) == '' compares an int with a str: it is never true.
LenIsEmptyStr(file_dir) == FALSE

\* The left operand alone, with no fallback.
PyOrFirst(x, y) == x

\* x or y on a path-or-None value
PyOr(x, y) == IF x = NoneStr \/ x = <<>> THEN y ELSE x

\* The cache never consulted.
WalksForEveryCall(file_dir, cache) == ~LenIsEmptyStr(file_dir)

\* Whether find_workspace_directory walks for this directory.
WalksFor(file_dir, cache) ==
    ~LenIsEmptyStr(file_dir) /\ file_dir \notin DOMAIN cache

\* find_workspace_directory(filepath): the cache it leaves and the value
\* it returns.
CacheAfter(filepath, cache, fs) ==
    LET file_dir == Dirname(filepath)
    IN IF WalksFor(file_dir, cache)
       THEN (file_dir :> PyOr(find_dir_recursive(file_dir, Targets, fs), file_dir))
              @@ cache
       ELSE cache

find_workspace_directory(filepath, cache, fs) ==
    LET file_dir == Dirname(filepath)
    IN IF LenIsEmptyStr(file_dir) THEN NoneStr
       ELSE CacheAfter(filepath, cache, fs)[file_dir]

\* The bookkeeping of one find_workspace_directory call.
Lookup(filepath) ==
    LET file_dir == Dirname(filepath)
        value == find_workspace_directory(filepath, workspace_cache, markers)
    IN /\ workspace_cache' = CacheAfter(filepath, workspace_cache, markers)
       /\ walks' = IF WalksFor(file_dir, workspace_cache)
                   THEN [walks EXCEPT ![file_dir] = @ + 1] ELSE walks
       /\ answers' = [answers EXCEPT ![file_dir] = @ \cup {value}]

\* ------------------------------------------------------------ results
\* The supervisor and its children as an operation finds them.
Snap == [proc |-> proc, port |-> port, url |-> url, nspawn |-> nspawn]

\* The same as an operation leaves them.
Post == [proc |-> proc', port |-> port', url |-> url', nspawn |-> nspawn']

NoResp == [wellformed |-> FALSE, status |-> "", suggestions |-> <<>>]

NoReq == [bufpath |-> <<>>, url |-> <<>>, path |-> "", params |-> <<>>]

\* What a completed operation is recorded as.  op: the operation; raised:
\* the exception that left it ("none": it returned); msg: str() of that
\* exception; startFail: why start_server did not start; outcome: how the
\* transport of the remote call ended; reqRaised: what Client.request
\* raised; resp: the decoded response; cands: the candidates returned;
\* reported: the print_error messages of the call; flag: a boolean return
\* value; lines: the lines start() read; killed, closedNow: the children
\* it killed and the streams it closed; fresh: what an ancestor walk
\* gives at the time of the call; interrupted: a signal handler ran
\* during it; afterStop: the operation completed before it was a stop();
\* fs: the marker files that existed at the time of the call; input, pos:
\* context['input'] and the position get_complete_position gave for it;
\* item, abbr: the suggestion item build_abbr was given, in a 1-tuple, and
\* what it returned; method, args, sent: the Client method called, its
\* arguments by parameter name, and the requests it passed to post_request;
\* pre, post: the state it found and the state it left.
BaseResult ==
    [op |-> "none", raised |-> "none", msg |-> <<>>, startFail |-> "none",
     outcome |-> "none", reqRaised |-> "none", resp |-> NoResp,
     cands |-> <<>>, reported |-> <<>>, flag |-> FALSE, lines |-> <<>>,
     bufpath |-> <<>>, value |-> <<>>, killed |-> {}, closedNow |-> {},
     fresh |-> <<>>, interrupted |-> FALSE, afterStop |-> FALSE, fs |-> {},
     input |-> <<>>, pos |-> 0, item |-> <<>>, abbr |-> <<>>,
     method |-> "", args |-> <<>>, sent |-> <<>>,
     pre |-> Snap, post |-> Snap]

\* An operation of several steps records the state it found when it begins
\* and is "running" until it ends.
Begin == [BaseResult EXCEPT !.op = "running"]

Done(op) ==
    IF result.op = "running" THEN [result EXCEPT !.op = op, !.post = Post]
    ELSE [BaseResult EXCEPT !.op = op, !.post = Post]

\* ------------------------------------------------------------- Server
\* Server.is_started
is_started == proc # NoProc /\ port # NoPort

\* Server.stop
stop ==
    IF proc = NoProc
    THEN UNCHANGED <<proc, port, closed, alive>>
    ELSE /\ closed' = closed \cup {proc}
         /\ alive' = alive \ {proc}
         /\ proc' = NoProc
         /\ port' = NoPort

\* subprocess.Popen at the head of Server.start: a new child, its handle
\* stored in self.proc.
Popen(who) ==
    /\ nspawn < MaxSpawn
    /\ nspawn' = nspawn + 1
    /\ proc' = nspawn + 1
    /\ alive' = alive \cup {nspawn + 1}
    /\ listen' = Append(listen, NoPort)
    /\ output' = <<>>
    /\ linesRead' = <<>>
    /\ pending' = NoPort
    /\ pc' = "reading"
    /\ caller' = who
    /\ UNCHANGED closed

\* Server.__init__ up to the Popen of its start(): a new object, no handle,
\* no port, no url yet.
ServerInit(who) ==
    /\ Popen(who)
    /\ port' = NoPort
    /\ url' = <<>>
    /\ UNCHANGED <<held, handlers>>

\* An exception leaves start(): the constructor, start_server and
\* gather_candidates unwind.  start_server catches ServerError alone.
StartRaises(exc, msg) ==
    /\ pc' = "idle"
    /\ IF caller = "gather"
       THEN IF exc = "ServerError"
            THEN /\ reported' = Append(reported, msg)
                 /\ result' = [Done("gather") EXCEPT
                                 !.startFail = "no_port", !.msg = msg,
                                 !.lines = linesRead, !.bufpath = req.bufpath,
                                 !.reported = reported']
            ELSE /\ result' = [Done("gather") EXCEPT
                                 !.raised = exc, !.msg = msg,
                                 !.lines = linesRead, !.bufpath = req.bufpath,
                                 !.reported = reported]
                 /\ UNCHANGED reported
       ELSE /\ result' = [Done(IF caller = "new" THEN "new" ELSE "start") EXCEPT
                            !.raised = exc, !.msg = msg, !.lines = linesRead]
            /\ UNCHANGED reported

\* One turn of start()'s loop: readline, the end of the stream, the match.
StartReadLine ==
    /\ hostAlive
    /\ pc = "reading"
    /\ UNCHANGED <<hostAlive, nspawn, alive, closed, held, proc, port, url,
                   handlers, caller, lastSignal, command, is_server_started,
                   client_url, req, wsVars, markers>>
    /\ IF proc = NoProc
       THEN \* self.proc is None: self.proc.stdout raises
            /\ StartRaises("AttributeError", <<"'NoneType' object has no attribute 'stdout'">>)
            /\ UNCHANGED <<output, pending, linesRead, listen>>
       ELSE \E line \in LineSet \cup {<<>>} :
            /\ line \in QuietLines => Len(linesRead) < MaxLines
            /\ IF line = <<>>
               THEN /\ StartRaises("ServerError", FailMessage(output))
                    /\ UNCHANGED <<output, pending, linesRead, listen>>
               ELSE IF SearchPort(line) # <<>>
               THEN /\ pending' = ParseInt(SearchPort(line))
                    /\ linesRead' = Append(linesRead, line)
                    /\ listen' = [listen EXCEPT ![proc] = ParseInt(SearchPort(line))]
                    /\ pc' = "matched"
                    /\ UNCHANGED <<output, result, reported>>
               ELSE /\ output' = output \o line
                    /\ linesRead' = Append(linesRead, line)
                    /\ UNCHANGED <<pending, listen, pc, result, reported>>

\* self.port = int(match.group(1)); break.  A direct start() returns here;
\* the constructor goes on.
StartRecordPort ==
    /\ hostAlive
    /\ pc = "matched"
    /\ UNCHANGED <<hostAlive, nspawn, alive, closed, listen, held, proc, url,
                   handlers, caller, output, pending, linesRead, lastSignal,
                   srcVars, wsVars, markers>>
    /\ port' = pending
    /\ IF caller = "direct"
       THEN /\ pc' = "idle"
            /\ result' = [Done("start") EXCEPT !.lines = linesRead]
       ELSE /\ pc' = "ctor"
            /\ UNCHANGED result

\* signal.signal(SIGTERM / SIGHUP / SIGINT, lambda num, stack: self.stop())
CtorRegister ==
    /\ hostAlive
    /\ pc = "ctor"
    /\ UNCHANGED <<hostAlive, nspawn, alive, closed, listen, held, proc, port,
                   url, caller, output, pending, linesRead, result, lastSignal,
                   srcVars, wsVars, markers>>
    /\ handlers' = TRUE
    /\ pc' = "ctor2"

\* ------------------------------------------------------------- Client
\* What the transport (post_request: opener.open and read) can do.
Outcomes == {"ok", "http_error", "conn_error"}

\* Whether a live child listens where the url points.
Reachable(u) ==
    /\ UrlPort(u) # NoPort
    /\ \E c \in alive : listen[c] = UrlPort(u)

\* collect_not_none(d)
collect_not_none(d) ==
    [key \in {k \in DOMAIN d : d[k] # NoneStr} |-> d[key]]

\* Client.suggest's params, as post_request sends them.
SuggestParams(text, line, column, filename, workspace, with_snippets, with_all) ==
    collect_not_none(
        [text |-> text, line |-> line, column |-> column,
         filename |-> filename, workspace |-> workspace,
         with_snippets |-> with_snippets, all |-> with_all])

\* Suggestion items a response may carry.
Item1 == [insert |-> <<"foo">>, kind |-> "Method", label |-> <<"foo">>,
          detail |-> <<"=> Foo">>, arguments |-> << <<"a">>, <<"b">> >>]

Item2 == [insert |-> <<"Bar">>, kind |-> "Class", label |-> <<"Bar">>,
          detail |-> <<"Class">>, arguments |-> <<>>]

Item3 == [insert |-> <<"baz">>, kind |-> "Method", label |-> <<"baz">>,
          detail |-> <<"=> nil">>, arguments |-> <<>>]

SuggestionLists == { <<>>, <<Item1, Item2>>, <<Item3, Item1>> }

\* Bodies of a 2xx reply: well-formed responses, and one that is not JSON.
Bodies ==
    [wellformed : {TRUE}, status : {"ok", "err"}, suggestions : SuggestionLists]
      \cup {NoResp}

\* str() of the error the transport raised.
Describe(o) ==
    CASE o = "http_error" -> <<"HTTP Error 500: Internal Server Error">>
      [] o = "conn_error" -> <<"<urlopen error [Errno 111] Connection refused>">>
      [] OTHER -> <<>>

\* Client.request: json.loads of the body, HTTPError re-raised as
\* ClientError(str(error)), everything else as it comes.
ClientRequest(o, body) ==
    IF o = "http_error"
    THEN [raised |-> "ClientError", msg |-> Describe(o), value |-> NoResp]
    ELSE IF o = "conn_error"
    THEN [raised |-> "URLError", msg |-> Describe(o), value |-> NoResp]
    ELSE IF ~body.wellformed
    THEN [raised |-> "JSONDecodeError", msg |-> <<"Expecting value">>, value |-> NoResp]
    ELSE [raised |-> "none", msg |-> <<>>, value |-> body]

\* The typed methods of Client.
Methods == {"prepare", "update", "suggest", "define", "resolve", "signify"}

\* An optional argument: left at None, or given.
Opt(v) == {NoneStr, v}

\* The arguments a caller gives each method, by parameter name.
ArgsOf(method) ==
    CASE method = "prepare" -> [workspace : {<<"/a">>}]
      [] method = "update" ->
           [filename : {<<"/a/f">>}, workspace : Opt(<<"/a">>)]
      [] method = "suggest" ->
           [text : {<<"text">>}, line : {<<"0">>}, column : {<<"0">>},
            filename : Opt(<<"/a/f">>), workspace : Opt(<<"/a">>),
            with_snippets : Opt(<<"1">>), with_all : Opt(<<"1">>)]
      [] method \in {"define", "signify"} ->
           [text : {<<"text">>}, line : {<<"0">>}, column : {<<"0">>},
            filename : Opt(<<"/a/f">>), workspace : Opt(<<"/a">>)]
      [] method = "resolve" ->
           [path : {<<"Foo#bar">>}, filename : Opt(<<"/a/f">>),
            workspace : Opt(<<"/a">>)]

\* What binding the call client.<method>(...) to the def raises.  prepare
\* and update are defined without self: the instance takes the place of
\* the first parameter, so prepare(workspace) gets one argument too many
\* (TypeError), and so does update(filename, workspace); update(filename)
\* binds and then fails on the name self (NameError).
CallRaises(method, a) ==
    CASE method = "prepare" -> "TypeError"
      [] method = "update" ->
           IF a.workspace = NoneStr THEN "NameError" ELSE "TypeError"
      [] OTHER -> "none"

\* The params dictionary each method builds.
ParamsOf(method, a) ==
    CASE method = "prepare" -> [workspace |-> a.workspace]
      [] method = "update" -> [filename |-> a.filename, workspace |-> a.workspace]
      [] method = "suggest" ->
           [text |-> a.text, line |-> a.line, column |-> a.column,
            filename |-> a.filename, workspace |-> a.workspace,
            with_snippets |-> a.with_snippets, all |-> a.with_all]
      [] method \in {"define", "signify"} ->
           [text |-> a.text, line |-> a.line, column |-> a.column,
            filename |-> a.filename, workspace |-> a.workspace]
      [] method = "resolve" ->
           [path |-> a.path, filename |-> a.filename, workspace |-> a.workspace]

\* The requests a call passes to post_request, as post_request sends them.
SentBy(method, a) ==
    IF CallRaises(method, a) # "none" THEN <<>>
    ELSE << [path |-> method, params |-> collect_not_none(ParamsOf(method, a))] >>

\* ------------------------------------------------------------- Source
\* Characters context['input'] is made of: one letter, one digit, the
\* other members of the class [a-zA-Z0-9_?!], and one outside it.
InputChars == {"a", "1", "_", "?", "!", "."}

\* [a-zA-Z0-9_?!]
IdentChars == {"a", "1", "_", "?", "!"}

RECURSIVE StringsUpTo(_)
StringsUpTo(n) ==
    IF n = 0 THEN {<<>>}
    ELSE LET shorter == StringsUpTo(n - 1)
         IN shorter \cup {Append(t, c) : t \in shorter, c \in InputChars}

Inputs == StringsUpTo(MaxInput)

\* The pattern with + for *: a start needs one character of the class.
MatchStartsNonEmpty(s) ==
    {i \in 0..(Len(s) - 1) : \A j \in (i + 1)..Len(s) : s[j] \in IdentChars}

\* The offsets where [a-zA-Z0-9_?!]*$ matches: every character from there
\* to the end is in the class.  The end of the string is always one.
MatchStarts(s) ==
    {i \in 0..Len(s) : \A j \in (i + 1)..Len(s) : s[j] \in IdentChars}

\* Source.get_complete_position: re.search gives the leftmost match, None
\* when there is none.
get_complete_position(input) ==
    IF MatchStarts(input) = {} THEN -1
    ELSE CHOOSE i \in MatchStarts(input) : \A k \in MatchStarts(input) : i <= k

\* ', '.join(args)
RECURSIVE JoinComma(_)
JoinComma(args) ==
    IF args = <<>> THEN <<>>
    ELSE IF Len(args) = 1 THEN args[1]
    ELSE args[1] \o <<", ">> \o JoinComma(Tail(args))

\* The label alone, whatever the kind.
LabelOnly(cand) == cand.label

\* Source.build_abbr
build_abbr(cand) ==
    IF cand.kind = "Method"
    THEN cand.label \o <<"(">> \o JoinComma(cand.arguments) \o <<")">>
    ELSE cand.label

\* Argument lists of up to n names.
RECURSIVE ArgLists(_)
ArgLists(n) ==
    IF n = 0 THEN {<<>>}
    ELSE LET shorter == ArgLists(n - 1)
         IN shorter \cup {Append(t, a) : t \in shorter, a \in {<<"a">>, <<"b">>}}

\* Suggestion items build_abbr may be given.
AbbrItems ==
    [insert : {<<"foo">>}, kind : {"Method", "Class", "Variable"},
     label : {<<"foo">>, <<"Bar">>}, detail : {<<"=> Foo">>},
     arguments : ArgLists(MaxArgs)]

\* One candidate of gather_candidates' list.
Candidate(cand) ==
    [word |-> cand.insert, kind |-> cand.kind, dup |-> 1,
     abbr |-> build_abbr(cand), info |-> cand.label, menu |-> cand.detail]

\* gather_candidates after client.suggest returned r: the candidates and
\* what is reported.
Candidates(r) ==
    IF r.status # "ok" THEN <<>>
    ELSE [i \in 1..Len(r.suggestions) |-> Candidate(r.suggestions[i])]

\* The report of a failed status left out.
ReportsNothing(r) == <<>>

Reports(r) == IF r.status # "ok" THEN <<r>> ELSE <<>>

\* gather_candidates from find_workspace_directory to the suggest call
\* going out.
IssueSuggest(f, u) ==
    /\ Lookup(f)
    /\ req' = [bufpath |-> f, url |-> u, path |-> "suggest",
               params |-> SuggestParams(<<"text">>, <<"0">>, <<"0">>, f,
                             find_workspace_directory(f, workspace_cache, markers),
                             NoneStr, NoneStr)]
    /\ pc' = "requesting"

\* self.host and self.url are set; Server(...) returns.  start_server
\* makes the client and sets the flag, and gather_candidates goes on.
CtorFinish ==
    /\ hostAlive
    /\ pc = "ctor2"
    /\ UNCHANGED <<hostAlive, nspawn, alive, closed, listen, proc, port,
                   handlers, caller, output, pending, linesRead, lastSignal,
                   markers>>
    /\ url' = FormatUrl("localhost", port)
    /\ held' = TRUE
    /\ IF caller = "gather"
       THEN /\ client_url' = url'
            /\ is_server_started' = TRUE
            /\ IssueSuggest(req.bufpath, url')
            /\ UNCHANGED <<result, command, reported>>
       ELSE /\ pc' = "idle"
            /\ result' = [Done("new") EXCEPT !.lines = linesRead]
            /\ UNCHANGED <<srcVars, wsVars>>

\* gather_candidates when the server is flagged started.
GatherStarted(f) ==
    /\ hostAlive
    /\ pc = "idle"
    /\ is_server_started
    /\ UNCHANGED <<hostAlive, nspawn, alive, closed, listen, held, proc, port,
                   url, handlers, caller, output, pending, linesRead,
                   lastSignal, command, is_server_started, client_url, markers>>
    /\ result' = [Begin EXCEPT !.bufpath = f]
    /\ reported' = <<>>
    /\ IssueSuggest(f, client_url)

\* start_server: no command is set.
GatherNoCommand(f) ==
    /\ hostAlive
    /\ pc = "idle"
    /\ ~is_server_started
    /\ command = <<>>
    /\ UNCHANGED <<hostAlive, srvVars, lastSignal, command, is_server_started,
                   client_url, req, wsVars, markers>>
    /\ reported' = <<"No solargraph binary set.">>
    /\ result' = [Done("gather") EXCEPT !.startFail = "no_command",
                                        !.bufpath = f, !.reported = reported']

\* start_server: vim's executable(command) is false.
GatherNotExecutable(f) ==
    /\ hostAlive
    /\ pc = "idle"
    /\ ~is_server_started
    /\ command # <<>>
    /\ UNCHANGED <<hostAlive, srvVars, lastSignal, command, is_server_started,
                   client_url, req, wsVars, markers>>
    /\ reported' = <<>>
    /\ result' = [Done("gather") EXCEPT !.startFail = "not_executable",
                                        !.bufpath = f, !.reported = reported']

\* start_server: Server(self.command, self.args) begins.
GatherSpawn(f) ==
    /\ hostAlive
    /\ pc = "idle"
    /\ ~is_server_started
    /\ command # <<>>
    /\ UNCHANGED <<hostAlive, lastSignal, command, is_server_started,
                   client_url, wsVars, markers>>
    /\ ServerInit("gather")
    /\ result' = [Begin EXCEPT !.bufpath = f]
    /\ reported' = <<>>
    /\ req' = [NoReq EXCEPT !.bufpath = f]

\* The suggest call ends: the transport's outcome, Client.request, and the
\* rest of gather_candidates.
GatherResponse(o, body) ==
    /\ hostAlive
    /\ pc = "requesting"
    /\ o \in (IF Reachable(req.url) THEN Outcomes ELSE {"conn_error"})
    /\ UNCHANGED <<hostAlive, nspawn, alive, closed, listen, held, proc, port,
                   url, handlers, caller, output, pending, linesRead,
                   lastSignal, command, is_server_started, client_url, req,
                   wsVars, markers>>
    /\ LET r == ClientRequest(o, body)
       IN /\ reported' = IF r.raised = "none" THEN reported \o Reports(r.value)
                         ELSE reported
          /\ result' = [Done("gather") EXCEPT
                          !.outcome = o, !.reqRaised = r.raised,
                          !.raised = r.raised, !.msg = r.msg, !.resp = r.value,
                          !.cands = IF r.raised = "none" THEN Candidates(r.value)
                                    ELSE <<>>,
                          !.reported = reported']
    /\ pc' = "idle"

\* ------------------------------------------- signals and the children
Signals == {"SIGTERM", "SIGHUP", "SIGINT"}

\* The last signal: how many times it ran stop(), and whether the host
\* survived it.
NoSignal == [seen |-> FALSE, held |-> FALSE, stops |-> 0, hostAlive |-> TRUE]

\* A signal reaches the host between two steps of the main thread.  With
\* the handlers installed the lambda runs self.stop() and returns; without
\* them the signal's default disposition ends the host.
Signal(sig) ==
    /\ hostAlive
    /\ sig \in Signals
    /\ UNCHANGED <<nspawn, listen, held, url, handlers, pc, caller, output,
                   pending, linesRead, srcVars, wsVars, markers>>
    /\ IF handlers
       THEN /\ stop
            /\ UNCHANGED hostAlive
       ELSE /\ hostAlive' = FALSE
            /\ UNCHANGED <<proc, port, closed, alive>>
    /\ lastSignal' = [seen |-> TRUE, held |-> held,
                      stops |-> IF handlers THEN 1 ELSE 0,
                      hostAlive |-> hostAlive']
    /\ result' = IF result.op = "running" /\ handlers
                 THEN [result EXCEPT !.interrupted = TRUE] ELSE result

\* A signal reaches the host while start() is blocked in readline.  The
\* handler runs inside the read: stop() calls self.proc.stdout.close() on
\* the reader that is being read, which raises RuntimeError (reentrant
\* call inside <_io.BufferedReader>) before anything is killed or cleared,
\* and the exception leaves readline and start().
SignalInReadline(sig) ==
    /\ hostAlive
    /\ sig \in Signals
    /\ handlers
    /\ pc = "reading"
    /\ proc # NoProc
    /\ UNCHANGED <<hostAlive, nspawn, alive, closed, listen, held, proc, port,
                   url, handlers, caller, output, pending, linesRead, srcVars,
                   wsVars, markers>>
    /\ pc' = "idle"
    /\ lastSignal' = [seen |-> TRUE, held |-> held, stops |-> 1,
                      hostAlive |-> TRUE]
    /\ result' = [Done(IF caller = "new" THEN "new" ELSE "start") EXCEPT
                    !.raised = "RuntimeError",
                    !.msg = <<"reentrant call inside <_io.BufferedReader>">>,
                    !.lines = linesRead,
                    !.interrupted = TRUE]

\* A child ends by itself.
ChildExit(c) ==
    /\ c \in alive
    /\ UNCHANGED <<hostAlive, nspawn, closed, listen, held, proc, port, url,
                   handlers, pc, caller, output, pending, linesRead, result,
                   lastSignal, srcVars, wsVars, markers>>
    /\ alive' = alive \ {c}

\* --------------------------------------- the Server class used directly
\* Server(command, args)
ServerNew ==
    /\ hostAlive
    /\ pc = "idle"
    /\ ~held
    /\ UNCHANGED <<hostAlive, lastSignal, srcVars, wsVars, markers>>
    /\ ServerInit("new")
    /\ result' = Begin

\* server.start()
ServerStart ==
    /\ hostAlive
    /\ pc = "idle"
    /\ held
    /\ UNCHANGED <<hostAlive, held, port, url, handlers, lastSignal, srcVars,
                   wsVars, markers>>
    /\ Popen("direct")
    /\ result' = Begin

\* server.stop()
ServerStop ==
    /\ hostAlive
    /\ pc = "idle"
    /\ held
    /\ UNCHANGED <<hostAlive, nspawn, listen, held, url, handlers, pc, caller,
                   output, pending, linesRead, lastSignal, srcVars, wsVars,
                   markers>>
    /\ stop
    /\ result' = [Done("stop") EXCEPT !.killed = alive \ alive',
                                      !.closedNow = closed' \ closed,
                                      !.afterStop = (result.op = "stop")]

\* server.is_started()
ServerIsStarted ==
    /\ hostAlive
    /\ pc = "idle"
    /\ held
    /\ UNCHANGED <<hostAlive, srvVars, lastSignal, srcVars, wsVars, markers>>
    /\ result' = [Done("is_started") EXCEPT !.flag = is_started]

\* ------------------------------------------ the resolver used directly
\* source.find_workspace_directory(filepath)
FindWorkspace(f) ==
    /\ hostAlive
    /\ pc = "idle"
    /\ UNCHANGED <<hostAlive, srvVars, lastSignal, srcVars, markers>>
    /\ Lookup(f)
    /\ result' = [Done("find") EXCEPT
                    !.bufpath = f,
                    !.fs = markers,
                    !.flag = WalksFor(Dirname(f), workspace_cache),
                    !.fresh = PyOr(find_dir_recursive(Dirname(f), Targets, markers),
                                   Dirname(f)),
                    !.value = find_workspace_directory(f, workspace_cache, markers)]

\* Client(url) for a server that runs elsewhere.
ClientNew(p) ==
    /\ hostAlive
    /\ pc = "idle"
    /\ client_url = <<>>
    /\ UNCHANGED <<hostAlive, srvVars, lastSignal, command, is_server_started,
                   req, reported, wsVars, markers>>
    /\ client_url' = FormatUrl("localhost", p)
    /\ result' = Done("client_new")

\* A typed method of the client is called and runs to its end: the call is
\* bound, the request goes out, the transport ends in one of its ways and
\* Client.request decodes the reply.
ClientCall(method, a, o, body) ==
    /\ hostAlive
    /\ pc = "idle"
    /\ client_url # <<>>
    /\ UNCHANGED <<hostAlive, srvVars, lastSignal, command, is_server_started,
                   client_url, reported, wsVars, markers>>
    /\ LET sent == SentBy(method, a)
           r == ClientRequest(o, body)
       IN IF sent = <<>>
          THEN /\ req' = req
               /\ result' = [Done("client") EXCEPT
                               !.method = method, !.args = a, !.sent = sent,
                               !.raised = CallRaises(method, a)]
          ELSE /\ req' = [bufpath |-> <<>>, url |-> client_url,
                          path |-> sent[1].path, params |-> sent[1].params]
               /\ result' = [Done("client") EXCEPT
                               !.method = method, !.args = a, !.sent = sent,
                               !.outcome = o, !.reqRaised = r.raised,
                               !.raised = r.raised, !.msg = r.msg,
                               !.resp = r.value]

\* deoplete asks where the completion starts.
GetCompletePosition(input) ==
    /\ hostAlive
    /\ pc = "idle"
    /\ UNCHANGED <<hostAlive, srvVars, lastSignal, srcVars, wsVars, markers>>
    /\ result' = [Done("get_complete_position") EXCEPT
                    !.input = input,
                    !.pos = get_complete_position(input)]

\* The abbreviation of one suggestion item is computed.
BuildAbbr(cand) ==
    /\ hostAlive
    /\ pc = "idle"
    /\ UNCHANGED <<hostAlive, srvVars, lastSignal, srcVars, wsVars, markers>>
    /\ result' = [Done("build_abbr") EXCEPT
                    !.item = <<cand>>,
                    !.abbr = build_abbr(cand)]

\* A marker file is created or removed.
TouchMarker(m) ==
    /\ UNCHANGED <<hostAlive, srvVars, result, lastSignal, srcVars, wsVars>>
    /\ markers' = IF m \in markers THEN markers \ {m} ELSE markers \cup {m}

\* ------------------------------------------------------ specifications
\* deoplete#sources#solargraph#command after expand(): unset, or a name.
Commands == { <<>>, <<"solargraph">> }

InitWith(cmds, fss) ==
    /\ hostAlive = TRUE
    /\ nspawn = 0
    /\ alive = {}
    /\ closed = {}
    /\ listen = <<>>
    /\ held = FALSE
    /\ proc = NoProc
    /\ port = NoPort
    /\ url = <<>>
    /\ handlers = FALSE
    /\ pc = "idle"
    /\ caller = "none"
    /\ output = <<>>
    /\ pending = NoPort
    /\ linesRead = <<>>
    /\ result = BaseResult
    /\ lastSignal = NoSignal
    /\ command \in cmds
    /\ is_server_started = FALSE
    /\ client_url = <<>>
    /\ workspace_cache = <<>>
    /\ markers \in fss
    /\ req = NoReq
    /\ reported = <<>>
    /\ walks = [d \in Dirs |-> 0]
    /\ answers = [d \in Dirs |-> {}]

\* The plugin: deoplete calls gather_candidates on a Source after on_init.
\* The buffers completed in, and the file system they are in.
GatherPaths == { <<"/", "a", "/", "b", "/", "f">>, <<"f">> }

GatherMarkers == { {}, { <<"/", "a", "/", "Gemfile">> } }

Init == InitWith(Commands, GatherMarkers)

Next ==
    \/ \E f \in GatherPaths : GatherStarted(f)
    \/ \E f \in GatherPaths : GatherNoCommand(f)
    \/ \E f \in GatherPaths : GatherNotExecutable(f)
    \/ \E f \in GatherPaths : GatherSpawn(f)
    \/ StartReadLine
    \/ StartRecordPort
    \/ CtorRegister
    \/ CtorFinish
    \/ \E o \in Outcomes, body \in Bodies : GatherResponse(o, body)
    \/ \E sig \in Signals : Signal(sig)
    \/ \E c \in 1..MaxSpawn : ChildExit(c)

Spec == Init /\ [][Next]_vars

\* The supervisor alone: a Server constructed and driven through its
\* methods, with signals arriving.
InitServer == InitWith({<<"solargraph">>}, {{}})

NextServer ==
    \/ ServerNew
    \/ ServerStart
    \/ ServerStop
    \/ ServerIsStarted
    \/ StartReadLine
    \/ StartRecordPort
    \/ CtorRegister
    \/ CtorFinish
    \/ \E sig \in Signals : Signal(sig)
    \/ \E sig \in Signals : SignalInReadline(sig)
    \/ \E c \in 1..MaxSpawn : ChildExit(c)

SpecServer == InitServer /\ [][NextServer]_vars

\* The resolver alone: lookups while marker files come and go.
InitWorkspace == InitWith({<<"solargraph">>}, SUBSET MarkerPaths)

NextWorkspace ==
    \/ \E f \in BufPaths : FindWorkspace(f)
    \/ \E m \in MarkerPaths : TouchMarker(m)

SpecWorkspace == InitWorkspace /\ [][NextWorkspace]_vars

\* The helpers of Source that deoplete calls with a line or an item.
InitHelpers == InitWith({<<"solargraph">>}, {{}})

NextHelpers ==
    \/ \E input \in Inputs : GetCompletePosition(input)
    \/ \E cand \in AbbrItems : BuildAbbr(cand)

SpecHelpers == InitHelpers /\ [][NextHelpers]_vars

\* The client alone, used against a server that runs elsewhere: the
\* transport may end in any of its ways.
InitClient == InitWith({<<"solargraph">>}, {{}})

NextClient ==
    \/ \E p \in {1, 12} : ClientNew(p)
    \/ \E method \in Methods : \E a \in ArgsOf(method) :
         \E o \in Outcomes : \E body \in Bodies : ClientCall(method, a, o, body)

SpecClient == InitClient /\ [][NextClient]_vars

\* ------------------------------------------------------------- claims
Started(s) == s.proc # NoProc /\ s.port # NoPort

TransportFailed == result.op = "gather" /\ result.outcome \in {"http_error", "conn_error"}

\* C1: when the suggest call fails in the transport (a non-2xx status or a
\* connection error), gather_candidates returns an empty list, calls
\* print_error exactly once, and raises nothing.
C1_TransportFailureGivesEmptyList ==
    TransportFailed
      => /\ result.raised = "none"
         /\ result.cands = <<>>
         /\ Len(result.reported) = 1

\* C2: when the server start fails, for whichever reason (no command, the
\* command is not executable, the output ends before a port is announced),
\* gather_candidates returns an empty list, reports the startup error
\* through print_error, and raises nothing.
C2_StartFailureIsReported ==
    (result.op = "gather" /\ result.startFail # "none")
      => /\ result.raised = "none"
         /\ result.cands = <<>>
         /\ result.reported # <<>>

\* C3: a start on a started server (Server.start(), or start_server() of a
\* later gather_candidates) succeeds, spawns no child and leaves the handle
\* and the port as they were.
C3_StartWhenStartedIsNoOp ==
    (result.op \in {"start", "gather"} /\ Started(result.pre) /\ ~result.interrupted)
      => /\ result.raised \notin {"ServerError", "AttributeError"}
         /\ result.startFail = "none"
         /\ result.post.nspawn = result.pre.nspawn
         /\ result.post.proc = result.pre.proc
         /\ result.post.port = result.pre.port

\* The orchestrator's half of C3 alone: with is_server_started set,
\* start_server() spawns nothing and changes neither handle nor port.
C3_StartServerWhenFlagged ==
    (result.op = "gather" /\ Started(result.pre) /\ ~result.interrupted)
      => /\ result.startFail = "none"
         /\ result.post = result.pre

\* C4: stop() on a server that is not started does nothing (kills nothing,
\* closes nothing, leaves handle and port, raises nothing); stop() on a
\* started server clears handle and port; a stop() right after a stop()
\* changes nothing.
C4_StopIsIdempotent ==
    result.op = "stop"
      => /\ result.raised = "none"
         /\ ~Started(result.pre)
              => /\ result.killed = {}
                 /\ result.closedNow = {}
                 /\ result.post = result.pre
         /\ Started(result.pre)
              => /\ result.post.proc = NoProc
                 /\ result.post.port = NoPort
         /\ result.afterStop
              => /\ result.killed = {}
                 /\ result.closedNow = {}
                 /\ result.post = result.pre

\* The port and the endpoint each announcing line stands for.
ExpectedPort(line) ==
    CASE line = <<"PORT=", "1", "\n">> -> 1
      [] line = <<"PORT=", "B", "PORT=", "1", "2", "PORT=", "2", "\n">> -> 12
      [] line = <<"B", "PORT=", "0", "2", "B", "\n">> -> 2

ExpectedUrl(line) ==
    CASE ExpectedPort(line) = 1 -> <<"http://", "localhost", ":", "1", "/">>
      [] ExpectedPort(line) = 12 -> <<"http://", "localhost", ":", "1", "2", "/">>
      [] ExpectedPort(line) = 2 -> <<"http://", "localhost", ":", "2", "/">>

\* A start() that ran on a server that was not started, with no signal
\* handled meanwhile.
PlainStart ==
    /\ result.op \in {"new", "start"}
    /\ ~result.interrupted
    /\ ~Started(result.pre)

\* No signal has reached the host so far.
NoSignalYet == ~lastSignal.seen

\* C5: when the child prints lines without an announcement and then a line
\* with PORT=<digits>, start() succeeds, the port recorded is the number of
\* that first announcing line, is_started() is true, and the endpoint is
\* http://localhost:<that port>/.
C5_PortDiscoverySucceeds ==
    (PlainStart /\ NoSignalYet
       /\ result.lines # <<>> /\ result.lines[Len(result.lines)] \in AnnounceLines)
      => LET last == result.lines[Len(result.lines)]
         IN /\ result.raised = "none"
            /\ \A i \in 1..(Len(result.lines) - 1) : result.lines[i] \in QuietLines
            /\ result.post.port = ExpectedPort(last)
            /\ Started(result.post)
            /\ result.post.url = ExpectedUrl(last)

RECURSIVE Flatten(_)
Flatten(ls) == IF ls = <<>> THEN <<>> ELSE Head(ls) \o Flatten(Tail(ls))

EndsWith(msg, tail) ==
    /\ Len(tail) <= Len(msg)
    /\ SubSeq(msg, Len(msg) - Len(tail) + 1, Len(msg)) = tail

\* C6: when the child's output ends with no announcing line, start() raises
\* ServerError with a message that holds every line read, in order; no
\* port is recorded and is_started() is false.
C6_PortDiscoveryFails ==
    (result.op \in {"new", "start"} /\ ~result.interrupted /\ result.raised # "none")
      => /\ result.raised = "ServerError"
         /\ \A i \in 1..Len(result.lines) : result.lines[i] \in QuietLines
         /\ EndsWith(result.msg, Flatten(result.lines))
         /\ result.post.port = NoPort
         /\ ~Started(result.post)

\* C6 for a start() on a server that was not started.
C6_FromNotStarted == PlainStart => C6_PortDiscoveryFails

\* C7: a signal that reaches a host holding a supervisor runs stop() exactly
\* once, and then the signal's default disposition ends the host.
C7_SignalStopsThenDefault ==
    (lastSignal.seen /\ lastSignal.held)
      => /\ lastSignal.stops = 1
         /\ ~lastSignal.hostAlive

\* C8: every transport failure of the remote call, a non-2xx status or a
\* connection error, leaves Client.request as a ClientError that carries
\* the description of the failure.
C8_TransportFailureIsClientError ==
    TransportFailed
      => /\ result.reqRaised = "ClientError"
         /\ result.msg = Describe(result.outcome)

\* C9: for a well-formed suggest response, a status other than "ok" is
\* reported once through print_error and gives an empty list; the status
\* "ok" gives one candidate per suggestion, in the order of the response,
\* and reports nothing; neither raises.
C9_StatusDecidesCandidates ==
    (result.op = "gather" /\ result.outcome = "ok" /\ result.resp.wellformed)
      => /\ result.raised = "none"
         /\ IF result.resp.status # "ok"
            THEN /\ result.reported = <<result.resp>>
                 /\ result.cands = <<>>
            ELSE /\ result.reported = <<>>
                 /\ Len(result.cands) = Len(result.resp.suggestions)
                 /\ \A i \in 1..Len(result.cands) :
                      /\ result.cands[i].word = result.resp.suggestions[i].insert
                      /\ result.cands[i].kind = result.resp.suggestions[i].kind
                      /\ result.cands[i].info = result.resp.suggestions[i].label
                      /\ result.cands[i].menu = result.resp.suggestions[i].detail

\* A well-formed response with a status other than "ok" came back.
C9_Witness ==
    /\ result.op = "gather"
    /\ result.outcome = "ok"
    /\ result.resp.wellformed
    /\ result.resp.status = "err"
    /\ result.resp.suggestions # <<>>
    /\ result.cands = <<>>

\* C10: every lookup of one directory returns the same value, and the
\* ancestor walk runs at most once for each directory, whatever marker
\* files appear or disappear in between.
C10_WorkspaceMemoized ==
    \A d \in Dirs : walks[d] <= 1 /\ Cardinality(answers[d]) <= 1

\* A lookup was answered from the cache although a walk would by now give
\* another directory.
C10_Witness ==
    /\ result.op = "find"
    /\ ~result.flag
    /\ result.fresh # result.value
    /\ walks[Dirname(result.bufpath)] = 1

\* The directories from d up to the root, d and the root included.
Chain(d) ==
    {SubSeq(d, 1, k) : k \in {j \in 1..Len(d) :
                                \/ j = Len(d)
                                \/ j = 1 /\ d[1] = "/"
                                \/ d[j + 1] = "/"}}

\* Directory d holds a marker file in the file system fs.
MarkedDir(d, fs) ==
    \E t \in {"Gemfile", ".git"} :
        (IF d = <<"/">> THEN <<"/", t>> ELSE d \o <<"/", t>>) \in fs

MarkedChain(d, fs) == {c \in Chain(d) : MarkedDir(c, fs)}

\* The marked directory of the chain that is nearest to d.
NearestMarked(d, fs) ==
    CHOOSE c \in MarkedChain(d, fs) : \A e \in MarkedChain(d, fs) : Len(e) <= Len(c)

\* A lookup that was not answered from the cache.
FreshLookup == result.op = "find" /\ result.flag

\* C11: a lookup of a directory that is not cached yet returns the nearest
\* directory, from the file's own directory up to the root and the root
\* included, that holds a marker file; when the root is the only marked
\* one, it returns the root.
C11_NearestMarkedDirectory ==
    (FreshLookup /\ MarkedChain(Dirname(result.bufpath), result.fs) # {})
      => result.value = NearestMarked(Dirname(result.bufpath), result.fs)

\* No directory of the file's chain held a marker file at the time of the
\* call.
NoMarkerOnChain == MarkedChain(Dirname(result.bufpath), result.fs) = {}

\* C12 as stated: every lookup of a file whose chain up to the root holds
\* no marker file returns the file's own directory, never None and never
\* an ancestor.
C12_FallbackToOwnDirectory_Original ==
    (result.op = "find" /\ NoMarkerOnChain)
      => result.value = Dirname(result.bufpath)

\* C12: a lookup of a directory that is not cached yet, for a file whose
\* chain up to the root holds no marker file, returns the file's own
\* directory, never None and never an ancestor.
C12_FallbackToOwnDirectory ==
    (FreshLookup /\ NoMarkerOnChain)
      => /\ result.value = Dirname(result.bufpath)
         /\ result.value # NoneStr

\* A file two levels below the root was looked up, with no marker file on
\* its chain, and the walk went all the way up and fell back.
C12_Witness ==
    /\ FreshLookup
    /\ NoMarkerOnChain
    /\ result.bufpath = <<"/", "a", "/", "b", "/", "f">>
    /\ result.value = <<"/", "a", "/", "b">>

\* The input ends with a character of the class.
EndsWithIdent(s) == s # <<>> /\ s[Len(s)] \in IdentChars

\* How many characters come before the maximal trailing run of the class:
\* the position of the last character outside it.
BeforeTrailingRun(s) ==
    LET outside == {j \in 1..Len(s) : s[j] \notin IdentChars}
    IN IF outside = {} THEN 0
       ELSE CHOOSE j \in outside : \A k \in outside : k <= j

Completed == result.op = "get_complete_position"

\* C13 as stated: for an input that ends with a run of identifier-like
\* characters get_complete_position returns the offset where the maximal
\* trailing run starts, and for every other input, the empty one included,
\* it returns -1.
C13_CompletePosition_Original ==
    Completed
      => IF EndsWithIdent(result.input)
         THEN result.pos = BeforeTrailingRun(result.input)
         ELSE result.pos = -1

\* C13: for an input that ends with a run of identifier-like characters
\* get_complete_position returns the offset where the maximal trailing run
\* starts, and for every other input, the empty one included, it returns
\* the length of the input; it never returns -1.
C13_CompletePosition ==
    Completed
      => /\ result.pos # -1
         /\ IF EndsWithIdent(result.input)
            THEN result.pos = BeforeTrailingRun(result.input)
            ELSE result.pos = Len(result.input)

\* The position was asked for an input that ends outside the class after
\* a token, and the answer was the end of the input.
C13_Witness ==
    /\ Completed
    /\ result.input = <<"a", "1", ".">>
    /\ result.pos = 3

\* The names of an argument list with ", " between each two of them.
ArgsWithCommas(args) ==
    [i \in 1..(2 * Len(args) - 1) |->
        IF i % 2 = 1 THEN args[(i + 1) \div 2][1] ELSE ", "]

\* C15: build_abbr returns, for an item of kind "Method", the label, an
\* opening parenthesis, the arguments joined with ", " and a closing
\* parenthesis (label() when there are no arguments), and for an item of
\* any other kind the label unchanged.
C15_Abbreviation ==
    result.op = "build_abbr"
      => LET cand == result.item[1]
         IN IF cand.kind = "Method"
            THEN result.abbr =
                   cand.label \o <<"(">> \o ArgsWithCommas(cand.arguments) \o <<")">>
            ELSE result.abbr = cand.label

\* The abbreviation of a method with two arguments was computed.
C15_Witness ==
    /\ result.op = "build_abbr"
    /\ result.item[1].kind = "Method"
    /\ result.item[1].arguments = << <<"a">>, <<"b">> >>
    /\ result.abbr = <<"foo", "(", "a", ", ", "b", ")">>

\* The field of the outgoing call each parameter is sent as.
FieldOf(param) == IF param = "with_all" THEN "all" ELSE param

\* The parameters of the last client call that were given a value.
Given == {q \in DOMAIN result.args : result.args[q] # NoneStr}

\* C14: each typed method of the client, called on an instance with its
\* documented arguments, issues exactly one request; the path of the
\* request is the method's name and its fields are exactly the fields that
\* were given a value, with these values.
C14_TypedOperationIssuesOneRequest ==
    result.op = "client"
      => /\ Len(result.sent) = 1
         /\ result.sent[1].path = result.method
         /\ DOMAIN result.sent[1].params = {FieldOf(q) : q \in Given}
         /\ \A q \in Given : result.sent[1].params[FieldOf(q)] = result.args[q]

\* C14 for the four methods that are defined with self.
C14_MethodsWithSelf ==
    result.method \in {"suggest", "define", "resolve", "signify"}
      => C14_TypedOperationIssuesOneRequest

\* A start() on a server that was not started ended after a signal
\* handler ran stop() during it.
InterruptedOp ==
    /\ result.op \in {"new", "start"}
    /\ result.interrupted
    /\ ~Started(result.pre)

\* C16: whenever a handler runs stop() during such a start(), the start() ends
\* with no fault other than the documented ServerError, it leaves handle
\* and port both recorded or both absent, and is_started() is false
\* afterwards.
C16_StopDuringStartIsSafe ==
    InterruptedOp
      => /\ result.raised \in {"none", "ServerError"}
         /\ (result.post.proc = NoProc) <=> (result.post.port = NoPort)
         /\ ~Started(result.post)

\* A supervisor exists and no operation on it is in progress.
AtRest == held /\ pc = "idle"

\* C17: whenever no operation is in progress, is_started() is true exactly
\* when the recorded child is alive and a port is recorded, and handle and
\* port are both recorded or both absent.
C17_StartedIffLiveAndPort ==
    AtRest
      => /\ is_started <=> (proc \in alive /\ port # NoPort)
         /\ (proc = NoProc) <=> (port = NoPort)

\* C18: a lookup for a file whose directory part is empty returns None,
\* performs no ancestor walk and leaves no cache entry for the empty
\* directory.
C18_NoDirectoryShortCircuits ==
    (result.op = "find" /\ Dirname(result.bufpath) = <<>>)
      => /\ result.value = NoneStr
         /\ ~result.flag
         /\ walks[<<>>] = 0
         /\ <<>> \notin DOMAIN workspace_cache

\* A gather_candidates call ended after its suggest call went out.
SuggestIssued == result.op = "gather" /\ result.outcome # "none"

\* C19: whenever is_server_started is set, is_started() is true and the
\* client's url carries the port the supervisor records; and a
\* gather_candidates call that finds the server stopped and issues suggest
\* has started a server first.
C19_FlagMeansRunning ==
    /\ is_server_started
         => /\ is_started
            /\ UrlPort(client_url) = port
    /\ (SuggestIssued /\ ~Started(result.pre))
         => result.post.nspawn > result.pre.nspawn

\* C20: whenever gather_candidates is not running, every live child is the
\* one recorded by the supervisor the orchestrator holds, and at most one
\* child is alive.
C20_NoOrphanChild ==
    pc = "idle"
      => /\ \A c \in alive : held /\ is_server_started /\ proc = c
         /\ Cardinality(alive) <= 1

=============================================================================
